---- MODULE Spec2Model ----
(***************************************************************************)
(* pySOT GlobalStrategy (src/pySOT/strategy.py): the evaluation scheduler  *)
(* that proposes points, and reconciles accept / reject / complete / abort *)
(* notifications against an evaluation budget.                             *)
(*                                                                         *)
(* The strategy object's fields are the variables below.  The worker pool  *)
(* (POAP controller) is the environment: it calls propose_action and later *)
(* fires each proposal's callback once (accept or reject) and, for an      *)
(* accepted proposal, the record's callback (running updates, then         *)
(* completed or aborted).                                                  *)
(***************************************************************************)
EXTENDS Integers, Sequences, FiniteSets, TLC

\* ---------------------------------------------------------------- bounds
NWorkers == 2       \* proposals the worker pool keeps outstanding at once
MaxEvals == 3       \* largest count budget max_evals drawn by Init
MaxSecs == 1        \* largest time budget (seconds) drawn by Init
MaxTime == 2        \* last clock value the model reaches
MaxDesign == 2      \* most points the experimental design returns
MaxBatch == 2       \* largest batch_size drawn by Init
MaxFail == 1        \* rejections plus aborts the worker pool may produce

\* np.inf: larger than every count, time and value the model reaches
Inf == 1000

\* points the experimental design and the adaptive sampler may return
Points == {<<0>>, <<1>>}
\* values an evaluation may report
Values == {0, 1}

\* opt_prob.lb, and opt_prob.dim, the number of its coordinates
lb == <<0>>
Dim == Len(lb)
\* points of another dimension, which a design or a sampler built for
\* another problem returns
BadPoints == {<<0, 0>>}

\* proposals issued under a time budget, where no count stops the run
MaxTimedEv == 3

VARIABLES
    \* constructor arguments kept by the object
    max_evals,            \* the max_evals argument (negative: seconds)
    maxeval,              \* self.maxeval
    time_budget,          \* self.time_budget
    asynchronous,         \* self.asynchronous
    batch_size,           \* self.batch_size
    stopping_criterion,   \* self.stopping_criterion
    \* sampler state
    phase,                \* 1 initial, 2 adaptive
    rejected_count,
    accepted_count,
    ev_last,
    batch_queue,          \* Python list: append at the end, pop from the end
    init_pending,
    \* budgeting state
    numeval,
    feval_budget,
    feval_pending,
    terminate,
    \* evaluations
    X,
    fX,
    Xpend,
    xbest,
    fbest,
    fevals,               \* list of completed records
    \* environment
    current_time,         \* time.time() - self.start_time
    props,                \* outstanding proposals / records, by ev_id
    fails,                \* rejections and aborts so far
    saved,                \* the file written by save, and whether it was loaded
    error,                \* the exception that ended the process, if any
    \* history
    design,               \* the points the experimental design returned
    history,              \* whether last and pre are kept in this run
    last,                 \* the last call into the strategy and its result
    pre,                  \* state before the last initial-phase proposal
    terminated            \* propose_action has returned TERMINATE

vars == <<max_evals, maxeval, time_budget, asynchronous, batch_size,
          stopping_criterion, phase, rejected_count, accepted_count, ev_last,
          batch_queue, init_pending, numeval, feval_budget, feval_pending,
          terminate, X, fX, Xpend, xbest, fbest, fevals, current_time, props,
          fails, saved, error, design, history, last, pre, terminated>>

\* ---------------------------------------------------------------- helpers
Abs(n) == IF n < 0 THEN -n ELSE n

\* the first argument, whatever the second
Min_first(a, b) == a

Min(a, b) == IF a <= b THEN a ELSE b

\* all sequences over S of length exactly n
RECURSIVE SeqsOfLen(_, _)
SeqsOfLen(S, n) ==
    IF n = 0 THEN {<<>>}
    ELSE {Append(s, e) : s \in SeqsOfLen(S, n - 1), e \in S}

\* the value None of xbest and of an absent stopping criterion
None == [given |-> FALSE, accept |-> {}]

NoSnap == [set |-> FALSE, id |-> 0, x |-> <<>>, feval_budget |-> 0,
           feval_pending |-> 0, init_pending |-> 0, Xpend |-> <<>>,
           batch_queue |-> <<>>, used |-> FALSE]

NoProp == [x |-> <<>>, kind |-> "none", state |-> "none"]

\* no file has been written
NoSave == [set |-> FALSE, resumed |-> FALSE]

\* the record of a call, kept when history is on
Event(op, x, val) ==
    IF history THEN [op |-> op, x |-> x, val |-> val] ELSE last

Snap(p) ==
    IF history THEN p ELSE pre

\* ---------------------------------------------------------------- __init__
\* GlobalStrategy.__init__ followed by sample_initial: the experimental
\* design's points are queued in order.  The two points of Points are
\* interchangeable, so the design's first point is taken to be <<0>>.
sample_initial(start_sample) ==
    IF \A i \in 1 .. Len(start_sample) : Len(start_sample[i]) = Dim
    THEN /\ batch_queue = start_sample
         /\ error = "none"
    ELSE /\ batch_queue = <<>>
         /\ error = "AssertionError"

\* the designs of 1 .. MaxDesign points of the problem's dimension
GoodDesigns ==
    UNION {{s \in SeqsOfLen(Points, n) : s[1] = <<0>>} : n \in 1 .. MaxDesign}

\* the designs of an experimental design built for another dimension
BadDesigns ==
    UNION {SeqsOfLen(BadPoints, n) : n \in 1 .. MaxDesign}

Construct(budgets, keep, designs) ==
    /\ max_evals \in budgets
    /\ maxeval = IF max_evals < 0 THEN Inf ELSE max_evals
    /\ time_budget = IF max_evals < 0 THEN Abs(max_evals) ELSE Inf
    /\ asynchronous \in BOOLEAN
    /\ batch_size \in 1 .. MaxBatch
    /\ asynchronous => batch_size = 1
    /\ stopping_criterion \in {None, [given |-> TRUE, accept |-> {0}]}
    /\ phase = 1
    /\ rejected_count = 0
    /\ accepted_count = 0
    /\ ev_last = 0
    /\ \E start_sample \in designs : sample_initial(start_sample)
    /\ init_pending = 0
    /\ numeval = 0
    /\ feval_budget = Abs(max_evals)
    /\ feval_pending = 0
    /\ terminate = FALSE
    /\ X = <<>>
    /\ fX = <<>>
    /\ Xpend = <<>>
    /\ xbest = None
    /\ fbest = Inf
    /\ fevals = <<>>
    /\ current_time = 0
    /\ props = [i \in {} |-> NoProp]
    /\ fails = 0
    /\ saved = NoSave
    /\ design = IF keep THEN batch_queue ELSE <<>>
    /\ history = keep
    /\ last = [op |-> "init", x |-> <<>>, val |-> 0]
    /\ pre = NoSnap
    /\ terminated = FALSE

\* a strategy built on an experimental design of the problem's dimension
InitWith(budgets, keep) ==
    Construct(budgets, keep, GoodDesigns)

\* the stopping test with the time budget compared by equality
StopCond_timeeq ==
    \/ numeval >= maxeval
    \/ terminate
    \/ current_time = time_budget

\* a count budget of 0 .. MaxEvals evaluations or a time budget of
\* 1 .. MaxSecs seconds
Init ==
    InitWith((0 - MaxSecs) .. MaxEvals, TRUE)

\* ---------------------------------------------------------------- strategy
\* the stopping test at the head of propose_action
StopCond ==
    \/ numeval >= maxeval
    \/ terminate
    \/ current_time >= time_budget

\* np.delete of every row of Xp that equals x in all coordinates
remove_closest_pending(Xp, x) ==
    SelectSeq(Xp, LAMBDA row : row # x)


\* make_proposal without the feval_budget decrement
make_proposal_nobudget(x) ==
    /\ feval_budget' = feval_budget
    /\ feval_pending' = feval_pending + 1
    /\ ev_last' = ev_last + 1
    /\ Xpend' = Append(Xpend, x)

\* counters and pending set of a new EVAL proposal
make_proposal(x) ==
    /\ feval_budget' = feval_budget - 1
    /\ feval_pending' = feval_pending + 1
    /\ ev_last' = ev_last + 1
    /\ Xpend' = Append(Xpend, x)

\* list.pop(): the last element
Top(q) == q[Len(q)]
Rest(q) == SubSeq(q, 1, Len(q) - 1)

\* init_proposal without the init_pending increment
init_proposal_nocount ==
    /\ make_proposal(Top(batch_queue))
    /\ batch_queue' = Rest(batch_queue)
    /\ init_pending' = init_pending
    /\ UNCHANGED <<phase, rejected_count, accepted_count, numeval, terminate,
                   X, fX, xbest, fbest, fevals>>

init_proposal ==
    /\ make_proposal(Top(batch_queue))
    /\ batch_queue' = Rest(batch_queue)
    /\ init_pending' = init_pending + 1
    /\ UNCHANGED <<phase, rejected_count, accepted_count, numeval, terminate,
                   X, fX, xbest, fbest, fevals>>

\* make_points(npts=1, ...) returns x; the event records npts
adapt_proposal_async(x) ==
    /\ make_proposal(x)
    /\ UNCHANGED <<phase, rejected_count, accepted_count, batch_queue,
                   init_pending, numeval, terminate, X, fX, xbest, fbest,
                   fevals>>

\* pops the next point of queue q, which becomes the batch queue
adapt_proposal_sync(q) ==
    /\ make_proposal(Top(q))
    /\ batch_queue' = Rest(q)
    /\ UNCHANGED <<rejected_count, accepted_count, init_pending, numeval,
                   terminate, X, fX, xbest, fbest, fevals>>

\* the batch size computed one short of the remaining evaluations
nsamples_short == Min(batch_size, maxeval - numeval - 1)

nsamples == Min(batch_size, maxeval - numeval)

\* the batch queue after make_batch, make_points having returned new_points
\* make_batch keeping only the first of the new points
make_batch_one(new_points) == batch_queue \o <<new_points[1]>>

make_batch(new_points) ==
    batch_queue \o new_points

on_initial_accepted ==
    /\ accepted_count' = accepted_count + 1
    /\ UNCHANGED <<phase, rejected_count, ev_last, batch_queue, init_pending,
                   numeval, feval_budget, feval_pending, terminate, X, fX,
                   Xpend, xbest, fbest, fevals>>

\* on_initial_rejected without the re-queueing of the point
on_initial_rejected_drop(xx) ==
    /\ rejected_count' = rejected_count + 1
    /\ feval_budget' = feval_budget + 1
    /\ feval_pending' = feval_pending - 1
    /\ init_pending' = init_pending - 1
    /\ batch_queue' = batch_queue
    /\ Xpend' = remove_closest_pending(Append(Xpend, xx), xx)
    /\ UNCHANGED <<phase, accepted_count, ev_last, numeval, terminate, X, fX,
                   xbest, fbest, fevals>>

on_initial_rejected(xx) ==
    /\ rejected_count' = rejected_count + 1
    /\ feval_budget' = feval_budget + 1
    /\ feval_pending' = feval_pending - 1
    /\ init_pending' = init_pending - 1
    /\ batch_queue' = Append(batch_queue, xx)
    /\ Xpend' = remove_closest_pending(Append(Xpend, xx), xx)
    /\ UNCHANGED <<phase, accepted_count, ev_last, numeval, terminate, X, fX,
                   xbest, fbest, fevals>>

\* the flag following the last completed value
stop_on_last(value) ==
    terminate' = (stopping_criterion.given
                  /\ value \in stopping_criterion.accept)

\* the stopping criterion applied to a completed value
stop_on(value) ==
    terminate' = IF stopping_criterion.given
                    /\ value \in stopping_criterion.accept
                 THEN TRUE ELSE terminate

\* on_initial_completed without the feval_pending decrement
on_initial_completed_nopend(xx, fx) ==
    /\ stop_on(fx)
    /\ numeval' = numeval + 1
    /\ feval_pending' = feval_pending
    /\ init_pending' = init_pending - 1
    /\ X' = Append(X, xx)
    /\ fX' = Append(fX, fx)
    /\ Xpend' = remove_closest_pending(Xpend, xx)
    /\ fevals' = Append(fevals, [params |-> xx, value |-> fx,
                                 worker_numeval |-> numeval + 1])
    /\ UNCHANGED <<phase, rejected_count, accepted_count, ev_last,
                   batch_queue, feval_budget, xbest, fbest>>

on_initial_completed(xx, fx) ==
    /\ stop_on(fx)
    /\ numeval' = numeval + 1
    /\ feval_pending' = feval_pending - 1
    /\ init_pending' = init_pending - 1
    /\ X' = Append(X, xx)
    /\ fX' = Append(fX, fx)
    /\ Xpend' = remove_closest_pending(Xpend, xx)
    /\ fevals' = Append(fevals, [params |-> xx, value |-> fx,
                                 worker_numeval |-> numeval + 1])
    /\ UNCHANGED <<phase, rejected_count, accepted_count, ev_last,
                   batch_queue, feval_budget, xbest, fbest>>

\* on_initial_aborted discarding the point as the adaptive phase does
on_initial_aborted_drop(xx) ==
    /\ feval_budget' = feval_budget + 1
    /\ feval_pending' = feval_pending - 1
    /\ init_pending' = init_pending - 1
    /\ Xpend' = remove_closest_pending(Xpend, xx)
    /\ UNCHANGED <<phase, rejected_count, accepted_count, ev_last,
                   batch_queue, numeval, terminate, X, fX, xbest, fbest,
                   fevals>>

on_initial_aborted(xx) ==
    /\ feval_budget' = feval_budget + 1
    /\ feval_pending' = feval_pending - 1
    /\ init_pending' = init_pending - 1
    /\ batch_queue' = Append(batch_queue, xx)
    /\ Xpend' = remove_closest_pending(Xpend, xx)
    /\ UNCHANGED <<phase, rejected_count, accepted_count, ev_last, numeval,
                   terminate, X, fX, xbest, fbest, fevals>>

\* on_adapt_accept charging the budget at acceptance
on_adapt_accept_charge ==
    /\ accepted_count' = accepted_count + 1
    /\ feval_budget' = feval_budget - 1
    /\ UNCHANGED <<phase, rejected_count, ev_last, batch_queue, init_pending,
                   numeval, feval_pending, terminate, X, fX,
                   Xpend, xbest, fbest, fevals>>

on_adapt_accept ==
    /\ accepted_count' = accepted_count + 1
    /\ UNCHANGED <<phase, rejected_count, ev_last, batch_queue, init_pending,
                   numeval, feval_budget, feval_pending, terminate, X, fX,
                   Xpend, xbest, fbest, fevals>>

on_adapt_reject(xx) ==
    /\ rejected_count' = rejected_count + 1
    /\ feval_budget' = feval_budget + 1
    /\ feval_pending' = feval_pending - 1
    /\ Xpend' = remove_closest_pending(Xpend, xx)
    /\ UNCHANGED <<phase, accepted_count, ev_last, batch_queue, init_pending,
                   numeval, terminate, X, fX, xbest, fbest, fevals>>


\* on_adapt_completed stacking the new value on top of fX
on_adapt_completed_front(xx, fx) ==
    /\ stop_on(fx)
    /\ numeval' = numeval + 1
    /\ feval_pending' = feval_pending - 1
    /\ X' = Append(X, xx)
    /\ fX' = <<fx>> \o fX
    /\ Xpend' = remove_closest_pending(Xpend, xx)
    /\ fevals' = Append(fevals, [params |-> xx, value |-> fx,
                                 worker_numeval |-> numeval + 1])
    /\ UNCHANGED <<phase, rejected_count, accepted_count, ev_last,
                   batch_queue, init_pending, feval_budget, xbest, fbest>>

on_adapt_completed(xx, fx) ==
    /\ stop_on(fx)
    /\ numeval' = numeval + 1
    /\ feval_pending' = feval_pending - 1
    /\ X' = Append(X, xx)
    /\ fX' = Append(fX, fx)
    /\ Xpend' = remove_closest_pending(Xpend, xx)
    /\ fevals' = Append(fevals, [params |-> xx, value |-> fx,
                                 worker_numeval |-> numeval + 1])
    /\ UNCHANGED <<phase, rejected_count, accepted_count, ev_last,
                   batch_queue, init_pending, feval_budget, xbest, fbest>>


\* on_adapt_aborted re-queueing the point as the initial phase does
on_adapt_aborted_requeue(xx) ==
    /\ feval_budget' = feval_budget + 1
    /\ feval_pending' = feval_pending - 1
    /\ batch_queue' = Append(batch_queue, xx)
    /\ Xpend' = remove_closest_pending(Xpend, xx)
    /\ UNCHANGED <<phase, rejected_count, accepted_count, ev_last,
                   init_pending, numeval, terminate, X, fX,
                   xbest, fbest, fevals>>

on_adapt_aborted(xx) ==
    /\ feval_budget' = feval_budget + 1
    /\ feval_pending' = feval_pending - 1
    /\ Xpend' = remove_closest_pending(Xpend, xx)
    /\ UNCHANGED <<phase, rejected_count, accepted_count, ev_last,
                   batch_queue, init_pending, numeval, terminate, X, fX,
                   xbest, fbest, fevals>>

svars == <<phase, rejected_count, accepted_count, ev_last, batch_queue,
           init_pending, numeval, feval_budget, feval_pending, terminate,
           X, fX, Xpend, xbest, fbest, fevals>>

\* is_done taking a running record for a finished one
is_done_running(status) ==
    status \in {"completed", "cancelled", "killed", "running"}

\* record.is_done: the record has left the pending and running states
is_done(status) == status \in {"completed", "cancelled", "killed"}

on_initial_update(status, xx, fx) ==
    IF status = "completed" THEN on_initial_completed(xx, fx)
    ELSE IF is_done(status) THEN on_initial_aborted(xx)
    ELSE UNCHANGED svars

on_adapt_update(status, xx, fx) ==
    IF status = "completed" THEN on_adapt_completed(xx, fx)
    ELSE IF is_done(status) THEN on_adapt_aborted(xx)
    ELSE UNCHANGED svars

on_initial_proposal(accepted, xx) ==
    IF accepted THEN on_initial_accepted ELSE on_initial_rejected(xx)

on_adapt_proposal(accepted, xx) ==
    IF accepted THEN on_adapt_accept ELSE on_adapt_reject(xx)

\* ---------------------------------------------------------------- propose_action
\* the worker pool has a free worker for one more EVAL proposal.  With a
\* count budget the run is finite by itself: a proposal is issued only while
\* numeval < max_evals, and at most MaxFail proposals fail.
CanWork ==
    /\ Cardinality(DOMAIN props) < NWorkers
    /\ max_evals < 0 => ev_last < MaxTimedEv

Issue(kind, x) ==
    props' = props @@ ((ev_last + 1) :> [x |-> x, kind |-> kind,
                                         state |-> "proposed"])

envframe == <<max_evals, maxeval, time_budget, asynchronous, batch_size,
              stopping_criterion, current_time, saved, error, design,
              history>>


\* TERMINATE without waiting for the pending evaluations
ProposeTerminate_nodrain ==
    /\ StopCond
    /\ terminated' = TRUE
    /\ last' = Event("terminate", <<>>, IF terminated THEN 1 ELSE 0)
    /\ pre' = Snap(NoSnap)
    /\ UNCHANGED <<svars, envframe, props, fails>>

\* stopping condition, nothing pending: Proposal('terminate')
ProposeTerminate ==
    /\ StopCond
    /\ feval_pending = 0
    /\ terminated' = TRUE
    /\ last' = Event("terminate", <<>>, IF terminated THEN 1 ELSE 0)
    /\ pre' = Snap(NoSnap)
    /\ UNCHANGED <<svars, envframe, props, fails>>

\* no action whenever the queue is empty and evaluations are pending, in
\* asynchronous mode too
ProposeNone_async ==
    /\ \/ StopCond /\ feval_pending # 0
       \/ /\ ~StopCond
          /\ batch_queue = <<>>
          /\ feval_pending # 0
    /\ last' = Event("none", <<>>, 0)
    /\ pre' = Snap(NoSnap)
    /\ UNCHANGED <<svars, envframe, props, fails, terminated>>

\* propose_action falls off the end and returns None
ProposeNone ==
    /\ \/ StopCond /\ feval_pending # 0
       \/ /\ ~StopCond
          /\ ~asynchronous
          /\ batch_queue = <<>>
          /\ feval_pending # 0
    /\ last' = Event("none", <<>>, 0)
    /\ pre' = Snap(NoSnap)
    /\ UNCHANGED <<svars, envframe, props, fails, terminated>>

ProposeInit ==
    /\ ~StopCond
    /\ batch_queue # <<>>
    /\ asynchronous \/ phase = 1
    /\ CanWork
    /\ init_proposal
    /\ Issue("init", Top(batch_queue))
    /\ last' = Event("init_proposal", Top(batch_queue), 0)
    /\ pre' = Snap([set |-> TRUE, id |-> ev_last + 1,
                     x |-> Top(batch_queue),
                     feval_budget |-> feval_budget,
                     feval_pending |-> feval_pending,
                     init_pending |-> init_pending, Xpend |-> Xpend,
                     batch_queue |-> batch_queue, used |-> FALSE])
    /\ UNCHANGED <<envframe, fails, terminated>>

\* an adaptive proposal whether or not the stopping condition holds
ProposeAdaptAsync_nostop ==
    /\ asynchronous
    /\ batch_queue = <<>>
    /\ CanWork
    /\ \E x \in Points :
         /\ adapt_proposal_async(x)
         /\ Issue("adapt", x)
         /\ last' = Event("adapt_async", x, 1)
    /\ pre' = Snap(NoSnap)
    /\ UNCHANGED <<envframe, fails, terminated>>

ProposeAdaptAsync ==
    /\ ~StopCond
    /\ asynchronous
    /\ batch_queue = <<>>
    /\ CanWork
    /\ \E x \in Points :
         /\ adapt_proposal_async(x)
         /\ Issue("adapt", x)
         /\ last' = Event("adapt_async", x, 1)
    /\ pre' = Snap(NoSnap)
    /\ UNCHANGED <<envframe, fails, terminated>>

ProposeAdaptSync ==
    /\ ~StopCond
    /\ ~asynchronous
    /\ batch_queue # <<>>
    /\ phase # 1
    /\ CanWork
    /\ adapt_proposal_sync(batch_queue)
    /\ UNCHANGED phase
    /\ Issue("adapt", Top(batch_queue))
    /\ last' = Event("adapt_proposal", Top(batch_queue), 0)
    /\ pre' = Snap(NoSnap)
    /\ UNCHANGED <<envframe, fails, terminated>>

\* the record of a make_batch call: the points make_points returned, their
\* number npts and the point proposed
BatchEvent(new_points, x, npts) ==
    IF history
    THEN [op |-> "make_batch", x |-> x, val |-> npts, batch |-> new_points]
    ELSE last

\* a new batch whether or not the stopping condition holds
ProposeMakeBatch_nostop ==
    /\ ~asynchronous
    /\ batch_queue = <<>>
    /\ feval_pending = 0
    /\ CanWork
    /\ phase' = 2
    /\ IF nsamples >= 1
       THEN \E new_points \in SeqsOfLen(Points, nsamples) :
               /\ adapt_proposal_sync(make_batch(new_points))
               /\ Issue("adapt", Top(make_batch(new_points)))
               /\ last' = BatchEvent(new_points,
                                     Top(make_batch(new_points)), nsamples)
       ELSE /\ UNCHANGED <<rejected_count, accepted_count, ev_last,
                           batch_queue, init_pending, numeval, feval_budget,
                           feval_pending, terminate, X, fX, Xpend, xbest,
                           fbest, fevals, props>>
            /\ last' = BatchEvent(<<>>, <<>>, nsamples)
    /\ pre' = Snap(NoSnap)
    /\ UNCHANGED <<envframe, fails, terminated>>

\* the previous batch has drained: a new batch, and a proposal from it.  A
\* batch of no points leaves pop() with an empty list: IndexError, after
\* phase has been set.
ProposeMakeBatch ==
    /\ ~StopCond
    /\ ~asynchronous
    /\ batch_queue = <<>>
    /\ feval_pending = 0
    /\ CanWork
    /\ phase' = 2
    /\ IF nsamples >= 1
       THEN \E new_points \in SeqsOfLen(Points, nsamples) :
               /\ adapt_proposal_sync(make_batch(new_points))
               /\ Issue("adapt", Top(make_batch(new_points)))
               /\ last' = BatchEvent(new_points,
                                     Top(make_batch(new_points)), nsamples)
       ELSE /\ UNCHANGED <<rejected_count, accepted_count, ev_last,
                           batch_queue, init_pending, numeval, feval_budget,
                           feval_pending, terminate, X, fX, Xpend, xbest,
                           fbest, fevals, props>>
            /\ last' = BatchEvent(<<>>, <<>>, nsamples)
    /\ pre' = Snap(NoSnap)
    /\ UNCHANGED <<envframe, fails, terminated>>

propose_action ==
    \/ ProposeTerminate
    \/ ProposeNone
    \/ ProposeInit
    \/ ProposeAdaptAsync
    \/ ProposeAdaptSync
    \/ ProposeMakeBatch

\* ---------------------------------------------------------------- worker pool
Settle(id, state) ==
    props' = [props EXCEPT ![id].state = state]

Retire(id) ==
    props' = [i \in DOMAIN props \ {id} |-> props[i]]

\* the proposal's callback, proposal.accepted being TRUE
Accept ==
    \E id \in DOMAIN props :
       /\ props[id].state = "proposed"
       /\ IF props[id].kind = "init"
          THEN on_initial_proposal(TRUE, props[id].x)
          ELSE on_adapt_proposal(TRUE, props[id].x)
       /\ Settle(id, "accepted")
       /\ last' = Event("accept_" \o props[id].kind, props[id].x, 0)
       /\ pre' = Snap(NoSnap)
       /\ UNCHANGED <<envframe, fails, terminated>>

\* the proposal's callback, proposal.accepted being FALSE
Reject ==
    \E id \in DOMAIN props :
       /\ props[id].state = "proposed"
       /\ fails < MaxFail
       /\ IF props[id].kind = "init"
          THEN on_initial_proposal(FALSE, props[id].x)
          ELSE on_adapt_proposal(FALSE, props[id].x)
       /\ Retire(id)
       /\ fails' = fails + 1
       /\ last' = Event("reject_" \o props[id].kind, props[id].x, 0)
       /\ pre' = Snap(IF pre.set /\ ~pre.used /\ pre.id = id
                      THEN [pre EXCEPT !.used = TRUE] ELSE NoSnap)
       /\ UNCHANGED <<envframe, terminated>>

\* the record's callback with record.status = status
Update(id, status, value) ==
    /\ props[id].state = "accepted"
    /\ IF props[id].kind = "init"
       THEN on_initial_update(status, props[id].x, value)
       ELSE on_adapt_update(status, props[id].x, value)
    /\ pre' = Snap(NoSnap)
    /\ UNCHANGED <<envframe, terminated>>

\* the values a worker reports.  record.value is read by the stopping
\* criterion only (it is otherwise stored in fX as it is), so without a
\* criterion one value stands for all.
Reported == IF stopping_criterion.given THEN Values ELSE {1}

Complete ==
    \E id \in DOMAIN props : \E value \in Reported :
       /\ Update(id, "completed", value)
       /\ Retire(id)
       /\ last' = Event("completed_" \o props[id].kind, props[id].x,
                        value)
       /\ UNCHANGED fails

Abort ==
    \E id \in DOMAIN props : \E status \in {"cancelled", "killed"} :
       /\ fails < MaxFail
       /\ Update(id, status, 0)
       /\ Retire(id)
       /\ fails' = fails + 1
       /\ last' = Event("aborted_" \o props[id].kind, props[id].x, 0)

Running ==
    \E id \in DOMAIN props :
       /\ Update(id, "running", 0)
       /\ last' = Event("running_" \o props[id].kind, props[id].x, 0)
       /\ UNCHANGED <<props, fails>>

\* time.time() advances
Tick ==
    /\ current_time < MaxTime
    /\ max_evals < 0
    /\ current_time' = current_time + 1
    /\ UNCHANGED <<svars, max_evals, maxeval, time_budget, asynchronous,
                   batch_size, stopping_criterion, props, fails, saved,
                   error, design, history, last, pre, terminated>>

Next ==
    \/ propose_action
    \/ Accept
    \/ Reject
    \/ Complete
    \/ Abort
    \/ Running
    \/ Tick

Spec == Init /\ [][Next]_vars

\* ---------------------------------------------------------------- checkpoint
\* dill.dump(self): every field of the strategy object
Pickle ==
    [phase |-> phase, rejected_count |-> rejected_count,
     accepted_count |-> accepted_count, ev_last |-> ev_last,
     batch_queue |-> batch_queue, init_pending |-> init_pending,
     numeval |-> numeval, feval_budget |-> feval_budget,
     feval_pending |-> feval_pending, terminate |-> terminate,
     X |-> X, fX |-> fX, Xpend |-> Xpend, xbest |-> xbest, fbest |-> fbest,
     fevals |-> fevals]

\* the points of the outstanding initial-phase proposals, by ev_id
InitInFlight ==
    [id \in {i \in DOMAIN props : props[i].kind = "init"} |-> props[id].x]

\* save(fname): the file holds the pickled object (the temporary file is
\* renamed over it in one step).  inflight is history: it is not in the file.
save ==
    /\ ~saved.set
    /\ saved' = [set |-> TRUE, resumed |-> FALSE, state |-> Pickle,
                 inflight |-> InitInFlight, pending |-> feval_pending]
    /\ last' = Event("save", <<>>, 0)
    /\ pre' = Snap(NoSnap)
    /\ UNCHANGED <<svars, max_evals, maxeval, time_budget, asynchronous,
                   batch_size, stopping_criterion, current_time, props, fails,
                   error, design, history, terminated>>

\* resume() with a budget refund for the evaluations that were in flight
resume_refund(s) ==
    [s EXCEPT !.feval_pending = 0,
              !.feval_budget = s.feval_budget + s.feval_pending]

\* resume() on the loaded object s
resume(s) ==
    [s EXCEPT !.feval_pending = 0]

\* The process ends, whatever it did since the save is lost with it and so
\* are the proposals and records the worker pool held; a new process loads
\* the file and calls resume().
load_resume ==
    /\ saved.set
    /\ ~saved.resumed
    /\ LET s == resume(saved.state) IN
          /\ phase' = s.phase
          /\ rejected_count' = s.rejected_count
          /\ accepted_count' = s.accepted_count
          /\ ev_last' = s.ev_last
          /\ batch_queue' = s.batch_queue
          /\ init_pending' = s.init_pending
          /\ numeval' = s.numeval
          /\ feval_budget' = s.feval_budget
          /\ feval_pending' = s.feval_pending
          /\ terminate' = s.terminate
          /\ X' = s.X
          /\ fX' = s.fX
          /\ Xpend' = s.Xpend
          /\ xbest' = s.xbest
          /\ fbest' = s.fbest
          /\ fevals' = s.fevals
    /\ props' = [i \in {} |-> NoProp]
    /\ saved' = [saved EXCEPT !.resumed = TRUE]
    /\ last' = Event("resume", <<>>, 0)
    /\ pre' = Snap(NoSnap)
    /\ UNCHANGED <<max_evals, maxeval, time_budget, asynchronous, batch_size,
                   stopping_criterion, current_time, fails, error, design,
                   history, terminated>>

\* the process is running: no file has been loaded yet
Up == ~saved.resumed

CkptPropose == Up /\ propose_action
CkptAccept == Up /\ Accept
CkptReject == Up /\ Reject
CkptComplete == Up /\ Complete

\* a count budget of 1 or 2 evaluations, no stopping criterion, workers that
\* accept or reject proposals and complete their records
CkptInit ==
    /\ InitWith(1 .. 2, FALSE)
    /\ stopping_criterion = None

CkptNext ==
    \/ CkptPropose
    \/ CkptAccept
    \/ CkptReject
    \/ CkptComplete
    \/ save
    \/ load_resume

CkptSpec == CkptInit /\ [][CkptNext]_vars

\* ---------------------------------------------------------------- properties
RowsOf(M) == {M[i] : i \in 1 .. Len(M)}

RECURSIVE MinOf(_)
MinOf(f) ==
    IF Len(f) = 1 THEN f[1] ELSE Min(f[1], MinOf(Tail(f)))

CompletedOps == {"completed_init", "completed_adapt"}

\* C1: with a count budget (max_evals >= 0), every reachable state has
\* feval_budget + numeval + feval_pending = max_evals.
BudgetConservation ==
    max_evals >= 0 => feval_budget + numeval + feval_pending = max_evals

BudgetConservationWitness ==
    /\ max_evals >= 0
    /\ numeval >= 1
    /\ feval_pending >= 1
    /\ fails >= 1
    /\ rejected_count >= 1

\* C2: in every reachable state Xpend has feval_pending rows, also when two
\* outstanding proposals carry the same point.
PendingSetConsistency ==
    Len(Xpend) = feval_pending

\* C3: once an evaluation has completed, fbest is the minimum of fX, is at
\* most the value just completed, and xbest is a row of X attaining it;
\* fbest is the no-best sentinel only while numeval = 0.
BestTracking ==
    /\ numeval > 0 =>
          /\ fbest = MinOf(fX)
          /\ \E i \in 1 .. Len(X) : X[i] = xbest /\ fX[i] = fbest
    /\ last.op \in CompletedOps => fbest <= last.val
    /\ fbest = Inf => numeval = 0

\* C4: with a count budget the budget is never over-assigned: feval_budget
\* never becomes negative and numeval never exceeds max_evals.
NeverOverAssigned ==
    max_evals >= 0 => feval_budget >= 0 /\ numeval <= max_evals

\* C5: propose_action returns TERMINATE only with feval_pending = 0 and a
\* stopping condition holding.
TerminationSafety ==
    last.op = "terminate" => feval_pending = 0 /\ StopCond

TerminationSafetyWitness ==
    /\ last.op = "terminate"
    /\ numeval >= 1
    /\ fails >= 1

\* C6: once propose_action has returned TERMINATE, no later step issues an
\* EVAL proposal (ev_last, which every EVAL proposal increments, and the set
\* of outstanding proposals never grow again).
NoEvalAfterTerminate ==
    [][terminated => ev_last' = ev_last /\ DOMAIN props' \subseteq DOMAIN props]_vars

\* propose_action is called again, and time moves on, after a TERMINATE
NoEvalAfterTerminateWitness ==
    /\ terminated
    /\ last.op = "terminate"
    /\ last.val = 1
    /\ current_time > time_budget

\* C8: X, fX and the list of completed records all have numeval rows, and
\* row i of X and of fX are the point and the value of the i-th completed
\* record; the record just completed is the last row.
CompletedSetConsistency ==
    /\ Len(X) = numeval
    /\ Len(fX) = numeval
    /\ Len(fevals) = numeval
    /\ \A i \in 1 .. Len(fevals) :
          /\ fevals[i].worker_numeval = i
          /\ i <= Len(X) /\ X[i] = fevals[i].params
          /\ i <= Len(fX) /\ fX[i] = fevals[i].value
    /\ last.op \in CompletedOps =>
          /\ Len(X) > 0 /\ X[Len(X)] = last.x
          /\ Len(fX) > 0 /\ fX[Len(fX)] = last.val

CompletedSetConsistencyWitness ==
    /\ numeval >= 2
    /\ last.op = "completed_adapt"
    /\ fX[1] # fX[2]
    /\ X[1] # X[2]

\* C9: an initial-phase proposal for x that is rejected straight away leaves
\* feval_budget, feval_pending, init_pending, Xpend and batch_queue as they
\* were before the proposal: x is back in batch_queue and the row added to
\* Xpend for it is gone.
InitRejectRoundTrip ==
    (pre.set /\ pre.used) =>
        /\ feval_budget = pre.feval_budget
        /\ feval_pending = pre.feval_pending
        /\ init_pending = pre.init_pending
        /\ Xpend = pre.Xpend
        /\ batch_queue = pre.batch_queue
        /\ pre.x \in RowsOf(batch_queue)

\* the effect on the strategy of an adaptive-phase record or proposal for x
\* leaving the pending set without a value: no row of Xpend holds x any
\* more, and the rows of the other points are kept, in order
AdaptDropEffect(x) ==
    /\ feval_budget' = feval_budget + 1
    /\ feval_pending' = feval_pending - 1
    /\ x \notin RowsOf(Xpend')
    /\ SelectSeq(Xpend', LAMBDA row : row # x)
          = SelectSeq(Xpend, LAMBDA row : row # x)
    /\ batch_queue' = batch_queue
    /\ numeval' = numeval
    /\ X' = X
    /\ fX' = fX
    /\ init_pending' = init_pending

InitAbortEffect ==
    [][(props' # props /\ last'.op = "aborted_init") =>
          /\ feval_budget' = feval_budget + 1
          /\ feval_pending' = feval_pending - 1
          /\ init_pending' = init_pending - 1
          /\ last'.x \notin RowsOf(Xpend')
          /\ SelectSeq(Xpend', LAMBDA row : row # last'.x)
                = SelectSeq(Xpend, LAMBDA row : row # last'.x)
          /\ batch_queue' = Append(batch_queue, last'.x)
          /\ numeval' = numeval
          /\ X' = X
          /\ fX' = fX
      ]_vars

InitAbortEffectWitness ==
    /\ last.op = "aborted_init"
    /\ numeval >= 1
    /\ feval_pending >= 1

\* ---------------------------------------------------------------- fairness
\* The worker pool keeps calling propose_action, decides every proposal and
\* finishes every accepted record; Reject and Abort are limited by MaxFail.
IssueEval ==
    \/ ProposeInit
    \/ ProposeAdaptAsync
    \/ ProposeAdaptSync
    \/ ProposeMakeBatch

\* a strategy built with a count budget: time_budget is np.inf and the clock
\* decides nothing.  No property of these runs reads last or pre, so they
\* are not kept; a running update then changes nothing at all.
CountInit ==
    InitWith(0 .. MaxEvals, FALSE)

CountNext ==
    \/ propose_action
    \/ Accept
    \/ Reject
    \/ Complete
    \/ Abort

FairSpec ==
    /\ CountInit
    /\ [][CountNext]_vars
    /\ WF_vars(ProposeTerminate)
    /\ WF_vars(IssueEval)
    /\ WF_vars(Accept)
    /\ WF_vars(Complete)

\* C7: with a count budget and a fair worker pool that rejects or aborts
\* finitely often, propose_action eventually returns TERMINATE, in
\* asynchronous and in synchronous mode.
EventualTermination ==
    <>terminated

EventualTerminationWitness ==
    /\ max_evals >= 1
    /\ terminated
    /\ ~terminate
    /\ fails >= 1
    /\ numeval >= max_evals

\* ---------------------------------------------------------------- scenario A
\* synchronous, max_evals = 4, batch_size = 2, a design of two points, no
\* stopping criterion; every proposal is accepted and every record completes
ScenarioInit ==
    /\ InitWith({4}, TRUE)
    /\ ~asynchronous
    /\ batch_size = 2
    /\ stopping_criterion = None
    /\ batch_queue = <<<<0>>, <<1>>>>

ScenarioNext ==
    \/ ProposeTerminate
    \/ ProposeNone
    \/ ProposeInit
    \/ ProposeAdaptSync
    \/ ProposeMakeBatch
    \/ Accept
    \/ Complete

ScenarioSpec == ScenarioInit /\ [][ScenarioNext]_vars

\* C12: in scenario A the two design points are proposed in the initial
\* phase; the batch is requested once both have completed, phase is then 2
\* and the batch has exactly 2 points; with 4 evaluations completed
\* feval_budget and feval_pending are 0 and propose_action can only return
\* TERMINATE, which it returns in no other state.
ScenarioA ==
    /\ \A id \in DOMAIN props :
          props[id].kind = IF id <= 2 THEN "init" ELSE "adapt"
    /\ last.op = "init_proposal" => phase = 1 /\ numeval <= 1
    /\ phase = 2 => numeval >= 2 /\ RowsOf(SubSeq(X, 1, 2)) = {<<0>>, <<1>>}
    /\ last.op = "make_batch" =>
          /\ last.val = 2
          /\ Len(last.batch) = 2
          /\ numeval = 2
          /\ phase = 2
          /\ feval_pending = 1
          /\ Len(batch_queue) = 1
    /\ numeval <= 4
    /\ (numeval = 4 /\ feval_pending = 0) =>
          /\ feval_budget = 0
          /\ ENABLED ProposeTerminate
          /\ ~ENABLED IssueEval
          /\ ~ENABLED ProposeNone
    /\ last.op = "terminate" =>
          numeval = 4 /\ feval_budget = 0 /\ feval_pending = 0

ScenarioAWitness ==
    /\ last.op = "terminate"
    /\ numeval = 4
    /\ phase = 2
    /\ accepted_count = 4

\* ------------------------------------------------- checkpoint properties

\* C13: checkpoint round trip.  After a file written by save is loaded and
\* resume is called, X, fX, numeval, feval_budget, xbest and fbest are those
\* of the saved state and feval_pending is 0, whatever the number of
\* proposals that were in flight at the save.
CheckpointRoundTrip ==
    saved.resumed =>
        /\ X = saved.state.X
        /\ fX = saved.state.fX
        /\ numeval = saved.state.numeval
        /\ feval_budget = saved.state.feval_budget
        /\ xbest = saved.state.xbest
        /\ fbest = saved.state.fbest
        /\ feval_pending = 0

\* a resumed run whose file was written with two proposals in flight and one
\* evaluation recorded
CheckpointRoundTripWitness ==
    /\ saved.resumed
    /\ saved.pending = 2
    /\ saved.state.feval_pending = 2
    /\ Len(X) = 1
    /\ numeval = 1

\* C14: resume leaves a consistent state.  After resume of a state saved with
\* proposals in flight the in-flight bookkeeping is reset (feval_pending = 0,
\* init_pending = 0, Xpend has no rows) and the budget equation
\* feval_budget + numeval + feval_pending = max_evals and
\* rows(Xpend) = feval_pending hold again.
ResumeConsistent ==
    (saved.resumed /\ saved.pending > 0) =>
        /\ feval_pending = 0
        /\ init_pending = 0
        /\ Xpend = <<>>
        /\ feval_budget + numeval + feval_pending = max_evals
        /\ Len(Xpend) = feval_pending

\* C15: resume does not lose in-flight work.  Every initial-design point that
\* was proposed but not completed when the state was saved is in batch_queue
\* after resume.
ResumeKeepsDesign ==
    saved.resumed =>
        \A id \in DOMAIN saved.inflight :
            saved.inflight[id] \in RowsOf(batch_queue)

\* ------------------------------------------------- phase, design, pending

\* C16: phase invariant.  In both modes phase = 1 (initial) holds only while
\* init_pending > 0 or batch_queue is not empty; once both are exhausted
\* phase is 2 (adaptive), and it never returns to 1.
PhaseInvariant ==
    [][/\ phase' = 1 => (init_pending' > 0 \/ batch_queue' # <<>>)
       /\ phase = 2 => phase' = 2]_vars

\* the number of rows of seq that equal x
Count(seq, x) == Cardinality({i \in 1 .. Len(seq) : seq[i] = x})

\* C17: initial-design points are not optional.  When TERMINATE is returned
\* in a run with a count budget at least as large as the design and no
\* stopping criterion, every point of the design has been evaluated.
DesignCovered ==
    (/\ terminated
     /\ max_evals >= Len(design)
     /\ stopping_criterion = None)
    => \A i \in 1 .. Len(design) : design[i] \in RowsOf(X)

\* C18: pending-set correspondence.  The rows of Xpend are, as a multiset,
\* the points of the proposals that have not reached a terminal state, so
\* that the end of one proposal removes its own row and no other.
PendingCorrespondence ==
    \A x \in Points :
        Count(Xpend, x) = Cardinality({id \in DOMAIN props : props[id].x = x})

\* ------------------------------------------------------- synchronous batch

ProposeOps == {"terminate", "none", "init_proposal", "adapt_async",
               "adapt_proposal", "make_batch"}

\* a make_batch step: the sampler is called in synchronous mode only, with no
\* stopping condition, an empty batch_queue and nothing pending, for
\* min(batch_size, maxeval - numeval) points; they are all enqueued and one
\* of them, the first or the last, is issued as an adaptive proposal
BatchStep(first) ==
    (last'.op = "make_batch" /\ last' # last) =>
        /\ ~StopCond
        /\ ~asynchronous
        /\ batch_queue = <<>>
        /\ feval_pending = 0
        /\ last'.val = Min(batch_size, maxeval - numeval)
        /\ Len(last'.batch) = last'.val
        /\ IF first
           THEN /\ last'.x = Head(last'.batch)
                /\ batch_queue' = Tail(last'.batch)
           ELSE /\ last'.x = last'.batch[Len(last'.batch)]
                /\ batch_queue' = SubSeq(last'.batch, 1, Len(last'.batch) - 1)
        /\ ev_last' = ev_last + 1
        /\ ev_last' \in DOMAIN props'
        /\ props'[ev_last'] = [x |-> last'.x, kind |-> "adapt",
                               state |-> "proposed"]
        /\ feval_pending' = 1

\* in synchronous mode, with an empty batch_queue and evaluations pending,
\* propose_action returns no action and changes nothing
BarrierStep ==
    (~asynchronous /\ batch_queue = <<>> /\ feval_pending > 0) =>
        /\ ev_last' = ev_last
        /\ phase' = phase
        /\ (last' # last /\ last'.op \in ProposeOps) =>
               (last'.op = "none" /\ UNCHANGED <<svars, props>>)

\* C19: synchronous batch barrier; of the batch it is the last point that
\* the same propose_action call issues, the others stay in batch_queue in
\* the sampler's order.
SyncBatchBarrier == [][BatchStep(FALSE) /\ BarrierStep]_vars

\* a batch of two different points has just been drawn
SyncBatchBarrierWitness ==
    /\ last.op = "make_batch"
    /\ Len(last.batch) = 2
    /\ last.batch[1] # last.batch[2]
    /\ last.x = last.batch[2]
    /\ batch_queue = <<last.batch[1]>>
    /\ feval_pending = 1

\* C19 as stated: synchronous batch barrier, the first point of the batch
\* being the one that the same propose_action call issues.
SyncBatchBarrierFirst == [][BatchStep(TRUE) /\ BarrierStep]_vars

\* C20: the adaptive sampler is never asked for a non-positive number of
\* points: a call of make_points from propose_action, for the single point
\* of asynchronous mode or the batch of synchronous mode, has npts >= 1,
\* and none is made when maxeval - numeval <= 0.
SamplerCountPositive ==
    [][((last' # last \/ ev_last' # ev_last)
        /\ last'.op \in {"make_batch", "adapt_async"}) =>
           /\ last'.val >= 1
           /\ maxeval - numeval > 0
           /\ batch_size >= 1]_vars

\* a batch drawn when one evaluation is left of a count budget, with a batch
\* size of two
SamplerCountPositiveWitness ==
    /\ last.op = "make_batch"
    /\ last.val = 1
    /\ batch_size = 2
    /\ max_evals >= 0
    /\ numeval = maxeval - 1

\* ------------------------------------------------------------- dispatch

DrainBeforeTerminate ==
    [][/\ (StopCond /\ feval_pending > 0) =>
            /\ ev_last' = ev_last
            /\ terminated' = terminated
            /\ ENABLED ProposeNone
            /\ ~ENABLED ProposeTerminate
            /\ (last' # last /\ last'.op \in ProposeOps) =>
                   (last'.op = "none" /\ UNCHANGED <<svars, props>>)
            /\ (last' # last
                /\ last'.op \in {"completed_init", "completed_adapt"}) =>
                   /\ numeval' = numeval + 1
                   /\ X' = Append(X, last'.x)
                   /\ fX' = Append(fX, last'.val)
                   /\ feval_pending' = feval_pending - 1
       /\ (terminated' /\ ~terminated) =>
            /\ StopCond
            /\ feval_pending = 0
            /\ DOMAIN props = {}]_vars

\* TERMINATE has been returned after an evaluation that was still in flight
\* when the budget ran out was recorded
DrainBeforeTerminateWitness ==
    /\ terminated
    /\ max_evals >= 1
    /\ ~terminate
    /\ numeval = maxeval + 1
    /\ Len(X) = numeval
    /\ feval_pending = 0

\* C23: value-based stopping.  When a stopping predicate is given and a
\* completed record, initial or adaptive, has a value the predicate accepts,
\* the terminate flag is set; it is never cleared; from then on
\* propose_action issues no EVAL proposal and returns TERMINATE as soon as
\* feval_pending = 0, even if numeval < maxeval.
ValueStop ==
    [][/\ (/\ last' # last
           /\ last'.op \in {"completed_init", "completed_adapt"}
           /\ stopping_criterion.given
           /\ last'.val \in stopping_criterion.accept) => terminate'
       /\ terminate =>
            /\ terminate'
            /\ ev_last' = ev_last
            /\ ~ENABLED IssueEval
            /\ IF feval_pending = 0
               THEN /\ ENABLED ProposeTerminate
                    /\ ~ENABLED ProposeNone
                    /\ (last' # last /\ last'.op \in ProposeOps) =>
                           (last'.op = "terminate" /\ terminated')
               ELSE /\ ~ENABLED ProposeTerminate
                    /\ terminated' = terminated]_vars

\* TERMINATE has been returned on the flag with evaluations left in the
\* count budget
ValueStopWitness ==
    /\ terminated
    /\ terminate
    /\ stopping_criterion.given
    /\ max_evals >= 2
    /\ numeval < maxeval
    /\ numeval >= 2
    /\ fX[1] \in stopping_criterion.accept
    /\ fX[Len(fX)] \notin stopping_criterion.accept

\* ------------------------------------------------------------ proposals

\* the outstanding proposals in the given state
InState(p, state) == {id \in DOMAIN p : p[id].state = state}

\* C24: no double-terminal.  A proposal leaves the outstanding ones by
\* exactly one of: rejected while proposed, completed while accepted,
\* aborted while accepted; its identifier never comes back; the counters
\* count every ended proposal once (ev_last = outstanding + completed +
\* rejected + aborted, accepted_count = accepted outstanding + completed +
\* aborted); an update of a record that is still running changes no counter.
NoDoubleTerminal ==
    [][/\ \A id \in DOMAIN props :
            IF id \in DOMAIN props'
            THEN /\ props'[id].x = props[id].x
                 /\ props'[id].kind = props[id].kind
                 /\ \/ props'[id].state = props[id].state
                    \/ /\ props[id].state = "proposed"
                       /\ props'[id].state = "accepted"
            ELSE /\ last'.x = props[id].x
                 /\ IF props[id].state = "proposed"
                    THEN /\ last'.op = "reject_" \o props[id].kind
                         /\ rejected_count' = rejected_count + 1
                         /\ numeval' = numeval
                    ELSE \/ /\ last'.op = "completed_" \o props[id].kind
                            /\ numeval' = numeval + 1
                            /\ fails' = fails
                         \/ /\ last'.op = "aborted_" \o props[id].kind
                            /\ numeval' = numeval
                            /\ fails' = fails + 1
                            /\ rejected_count' = rejected_count
       /\ Cardinality(DOMAIN props \ DOMAIN props') <= 1
       /\ \A id \in DOMAIN props' \ DOMAIN props :
            /\ id = ev_last + 1
            /\ ev_last' = id
            /\ props'[id].state = "proposed"
       /\ ev_last' = Cardinality(DOMAIN props') + numeval' + fails'
       /\ accepted_count' = Cardinality(InState(props', "accepted"))
                            + numeval' + (fails' - rejected_count')
       /\ (last' # last /\ last'.op \in {"running_init", "running_adapt"})
            => UNCHANGED <<svars, props, fails>>]_vars

\* one proposal has been rejected and two have been accepted and completed,
\* the last of them an adaptive one
NoDoubleTerminalWitness ==
    /\ rejected_count = 1
    /\ fails = 1
    /\ numeval = 2
    /\ last.op = "completed_adapt"
    /\ DOMAIN props = {}

\* C25: acceptance changes no budget state.  When an EVAL proposal, initial
\* or adaptive, is accepted, accepted_count grows by 1 and feval_budget,
\* feval_pending, init_pending, numeval, X, fX, Xpend, batch_queue and phase
\* are unchanged.
AcceptanceFrame ==
    [][(\E id \in DOMAIN props :
           /\ props[id].state = "proposed"
           /\ id \in DOMAIN props'
           /\ props'[id].state = "accepted") =>
         /\ last'.op \in {"accept_init", "accept_adapt"}
         /\ accepted_count' = accepted_count + 1
         /\ UNCHANGED <<feval_budget, feval_pending, init_pending, numeval,
                        X, fX, Xpend, batch_queue, phase>>]_vars

\* an adaptive proposal has just been accepted, after another acceptance,
\* with two evaluations pending
AcceptanceFrameWitness ==
    /\ last.op = "accept_adapt"
    /\ accepted_count = 2
    /\ feval_pending = 2
    /\ Cardinality(InState(props, "accepted")) = 2

\* --------------------------------------------------- dimension mismatch
\* make_proposal for a point x of another dimension: the counters are
\* changed, then np.vstack((self.Xpend, x)) raises ValueError and Xpend is
\* not assigned
make_proposal_raises(x) ==
    /\ Len(x) # Dim
    /\ feval_budget' = feval_budget - 1
    /\ feval_pending' = feval_pending + 1
    /\ ev_last' = ev_last + 1
    /\ Xpend' = Xpend
    /\ error' = "ValueError"

\* the process is running
Alive == error = "none"

\* what the raising calls leave alone
raiseframe == <<max_evals, maxeval, time_budget, asynchronous, batch_size,
                stopping_criterion, rejected_count, accepted_count,
                init_pending, numeval, terminate, X, fX, xbest, fbest, fevals,
                current_time, props, fails, saved, design, history,
                terminated>>

\* adapt_proposal_async with a sampler that returns a point of another
\* dimension
ProposeAdaptAsyncRaise ==
    /\ Alive
    /\ ~StopCond
    /\ asynchronous
    /\ batch_queue = <<>>
    /\ CanWork
    /\ \E x \in BadPoints :
         /\ make_proposal_raises(x)
         /\ last' = Event("raise", x, 1)
    /\ pre' = Snap(NoSnap)
    /\ UNCHANGED <<raiseframe, phase, batch_queue>>

\* make_batch with a sampler that returns a matrix of another dimension:
\* the rows are all queued, the last is popped and make_proposal raises
ProposeMakeBatchRaise ==
    /\ Alive
    /\ ~StopCond
    /\ ~asynchronous
    /\ batch_queue = <<>>
    /\ feval_pending = 0
    /\ CanWork
    /\ nsamples >= 1
    /\ phase' = 2
    /\ \E new_points \in SeqsOfLen(BadPoints, nsamples) :
         /\ batch_queue' = Rest(make_batch(new_points))
         /\ make_proposal_raises(Top(make_batch(new_points)))
         /\ last' = Event("raise", Top(make_batch(new_points)), nsamples)
    /\ pre' = Snap(NoSnap)
    /\ UNCHANGED raiseframe

DimPropose == Alive /\ propose_action
DimAccept == Alive /\ Accept
DimReject == Alive /\ Reject
DimComplete == Alive /\ Complete
DimAbort == Alive /\ Abort

\* a count budget, and an experimental design of the problem's dimension or
\* of another one
DimInit ==
    Construct(1 .. MaxEvals, TRUE, GoodDesigns \cup BadDesigns)

DimNext ==
    \/ DimPropose
    \/ DimAccept
    \/ DimReject
    \/ DimComplete
    \/ DimAbort
    \/ ProposeAdaptAsyncRaise
    \/ ProposeMakeBatchRaise

DimSpec == DimInit /\ [][DimNext]_vars

\* C26: a dimension mismatch is fatal and immediate.  Points of another
\* dimension, from the experimental design or from the adaptive sampler,
\* raise an error at first use: no EVAL proposal is issued for such a point
\* and feval_budget, feval_pending and ev_last are left as they were.
DimensionFatal ==
    /\ error = "AssertionError" =>
          /\ batch_queue = <<>>
          /\ ev_last = 0
          /\ feval_pending = 0
          /\ feval_budget = Abs(max_evals)
    /\ \A id \in DOMAIN props : Len(props[id].x) = Dim
    /\ \A i \in 1 .. Len(Xpend) : Len(Xpend[i]) = Dim
    /\ error = "ValueError" =>
          /\ last.op = "raise"
          /\ ev_last = Cardinality(DOMAIN props) + numeval + fails
          /\ feval_pending = Cardinality(DOMAIN props)

\* ------------------------------------------------------ implicit counters

\* C27: init_pending is the number of initial-phase proposals that have not
\* reached a terminal state, hence 0 <= init_pending <= feval_pending.
InitPendingCount ==
    /\ init_pending = Cardinality({id \in DOMAIN props :
                                      props[id].kind = "init"})
    /\ 0 <= init_pending
    /\ init_pending <= feval_pending

\* one initial and one adaptive proposal outstanding, after an initial
\* proposal was rejected and an evaluation completed
InitPendingCountWitness ==
    /\ init_pending = 1
    /\ feval_pending = 2
    /\ rejected_count = 1
    /\ numeval >= 1
    /\ \E id \in DOMAIN props : props[id].kind = "adapt"

\* C28: in synchronous mode the adaptive sampler is called for the first
\* time (phase still 1) only when every point of the initial design has been
\* evaluated: numeval is the size of the design and X holds the design's
\* points, whatever rejections and aborts there were.
FirstBatchAfterDesign ==
    [][(/\ last'.op = "make_batch"
        /\ last' # last
        /\ phase = 1) =>
          /\ ~asynchronous
          /\ init_pending = 0
          /\ numeval = Len(design)
          /\ \A x \in Points : Count(X, x) = Count(design, x)]_vars

\* the first batch has been drawn after a design of two different points,
\* one of them proposed twice because of a rejection or an abort
FirstBatchAfterDesignWitness ==
    /\ last.op = "make_batch"
    /\ fails = 1
    /\ design = <<<<0>>, <<1>>>>
    /\ numeval = 2
    /\ ev_last = 4

\* asynchronous mode: an adaptive proposal issued before the design's
\* points have all been evaluated
AsyncEarlyAdaptive ==
    /\ asynchronous
    /\ last.op = "adapt_async"
    /\ numeval < Len(design)

\* C29: in synchronous mode with a count budget and an initial design of at
\* most max_evals points, feval_budget >= 0, feval_pending >= 0 and
\* numeval <= max_evals in every state, and once phase is 2 (adaptive)
\* numeval + feval_pending + len(batch_queue) <= max_evals.
SyncWithinBudget ==
    (~asynchronous /\ max_evals >= Len(design)) =>
        /\ feval_budget >= 0
        /\ feval_pending >= 0
        /\ numeval <= max_evals
        /\ phase = 2 =>
              numeval + feval_pending + Len(batch_queue) <= max_evals

\* a batch cut down to the two evaluations the budget has left, one point
\* proposed and one still queued
SyncWithinBudgetWitness ==
    /\ ~asynchronous
    /\ phase = 2
    /\ max_evals = Len(design) + 2
    /\ numeval = Len(design)
    /\ feval_pending = 1
    /\ Len(batch_queue) = 1
    /\ feval_budget = 1

====
